---- MODULE Spec2Model ----
(***************************************************************************)
(* Share collection, validation and recovery orchestration of              *)
(* GLOV Secure - Mnemonic Shards.                                          *)
(*                                                                         *)
(*   validateShareCollection      src/unnamed/part_002 (utils/validation)  *)
(*   recoverMnemonicWithShares    src/src/components/ShareManager.js       *)
(*   handleRecoverMnemonic        src/src/main.js                          *)
(*   getCurrentShares, processFile, applyDecryption, retryDecryption       *)
(*                                src/src/components/RecoveryTabManager.js *)
(*   PasswordDialog               src/unnamed/part_008                     *)
(*                                                                         *)
(* A raw input unit (one pasted line, one uploaded file's content, one     *)
(* share object) is a record                                               *)
(*   [kind, threshold, index, data, pw]                                    *)
(* kind "b64"  : a string that atob + JSON.parse turn into the object      *)
(*               {threshold, index, data}; 0 stands for a falsy field      *)
(* kind "junk" : a string on which atob / JSON.parse throws and that is no *)
(*               ciphertext either                                         *)
(* kind "pgp"  : an OpenPGP armored message encrypted under password pw,   *)
(*               whose plaintext is the "b64" string with the same fields  *)
(* kind "obj"  : an already decoded share object (upload channel)          *)
(***************************************************************************)
EXTENDS Integers, Sequences, FiniteSets, TLC

VARIABLES
    shareStrings,     \* validateShareCollection: its argument
    validation,       \* validateShareCollection: its result
    activeTab,        \* RecoveryTabManager.activeTab: "paste" | "upload"
    shares,           \* recoverMnemonicWithShares: the shares argument
    pc,               \* position of the recovery attempt (async function)
    isEncrypted,      \* local of recoverMnemonicWithShares
    validShareData,   \* local: classified inputs, in input order
    password,         \* local: the password currently in use
    isRetry,          \* local: the flag handed to the dialog
    encIdx,           \* loop position in encryptedShares (1-based)
    decryptedShares,  \* local: shares resolved by decryption
    combineArgs,      \* payload envelopes handed to combine, <<>> before
    combineCalled,    \* whether combine was called in this attempt
    combineCalls,     \* history: encoding of every combine call, in order
    shownThreshold,   \* threshold passed to displayRecoverResult / error
    result,           \* outcome shown to the user
    prompts,          \* history: isRetry flag of every prompt issued
    cancelledAt,      \* history: positions (in prompts) the user cancelled
    decryptedWith,    \* history: password that resolved each decrypted share
    uploadedFiles,    \* RecoveryTabManager.uploadedFiles
    uploadPassword,   \* RecoveryTabManager.uploadPassword
    wrongTried,       \* history: files on which a wrong password was applied
    rightTried,       \* history: files on which the right password was applied
                      \*          after a wrong one
    recoverBtnDisabled, \* #recoverBtn.disabled
    totalSharesSelect, \* #totalShares: the selected value
    thresholdSelect,  \* #threshold: the selected value
    thresholdOptions, \* #threshold: the values offered
    isEncryptionEnabled, \* ShareManager.isEncryptionEnabled
    encryptionPasswordField, \* #encryptionPassword and its confirmation
    encryptionPassword, \* ShareManager.encryptionPassword
    downloadPc,       \* position of downloadEncryptedShare
    swState,          \* service worker: "installing" | "active"
    swCache,          \* URLs stored in the cache offline-cache-v1
    swPuts,           \* URLs whose cache.put has not completed yet
    swRequests,       \* fetch events handled, with their position and answer
    swNetOk,          \* history: URLs the network answered with an ok status
    isVisible,        \* PasswordDialog.isVisible
    dialogMounted,    \* the overlay of the dialog is in the document
    dialogInput,      \* value of #dialogPasswordInput
    currentPassword,  \* PasswordDialog.currentPassword
    resolveCallback,  \* PasswordDialog.resolveCallback: a promise, 0 = null
    rejectCallback,   \* PasswordDialog.rejectCallback: a promise, 0 = null
    dialogIsRetry,    \* PasswordDialog.isRetry
    promises,         \* the promises show has returned, in order
    readBatches,      \* handleFileSelect calls whose files are being read
    decryptRuns       \* retryDecryption calls in progress

vars == <<shareStrings, validation, activeTab, shares, pc, isEncrypted,
          validShareData, password, isRetry, encIdx, decryptedShares,
          combineArgs, combineCalled, combineCalls, shownThreshold, result, prompts,
          cancelledAt, decryptedWith, uploadedFiles, uploadPassword,
          wrongTried, rightTried, recoverBtnDisabled,
          totalSharesSelect, thresholdSelect, thresholdOptions,
          isEncryptionEnabled, encryptionPasswordField, encryptionPassword,
          downloadPc, swState, swCache, swPuts, swRequests, swNetOk,
          isVisible, dialogMounted, dialogInput, currentPassword,
          resolveCallback, rejectCallback, dialogIsRetry, promises,
          readBatches, decryptRuns>>

validateVars == <<shareStrings, validation>>
recoverVars  == <<activeTab, shares, pc, isEncrypted, validShareData, password,
                  isRetry, encIdx, decryptedShares, combineArgs, combineCalled, combineCalls,
                  shownThreshold, result, prompts, cancelledAt, decryptedWith>>
uploadVars   == <<uploadedFiles, uploadPassword, wrongTried, rightTried>>
generateVars == <<totalSharesSelect, thresholdSelect, thresholdOptions,
                  isEncryptionEnabled, encryptionPasswordField,
                  encryptionPassword, downloadPc>>
swVars       == <<swState, swCache, swPuts, swRequests, swNetOk>>
dialogVars   == <<isVisible, dialogMounted, dialogInput, currentPassword,
                  resolveCallback, rejectCallback, dialogIsRetry, promises>>
intakeVars   == <<readBatches, decryptRuns>>
\* What the recovery section's synchronous handlers leave alone.
pageVars     == <<generateVars, swVars, dialogVars, intakeVars>>

(***************************************************************************)
(* Bounds of the model                                                     *)
(***************************************************************************)
MaxShares    == 3   \* longest list of raw inputs
MaxThreshold == 3   \* largest threshold field
MaxIndex     == 3   \* largest index field
MaxPassword  == 2   \* passwords are 1..MaxPassword
CipherThreshold == 2 \* threshold field inside the encrypted shares
MaxFiles     == 2   \* most files uploaded
MaxPasteLines == 2  \* most lines typed into the textarea (SpecFiles)
MaxUrls      == 2   \* URLs requested through the service worker
MaxRequests  == 3   \* fetch events handled by the service worker
MaxPrompts   == 3   \* calls of passwordDialog.show
MaxIntakeFiles == 3 \* most files selected while reads are in flight
MaxDecryptRuns == 2 \* applyDecryption calls in progress at once

Passwords == 1..MaxPassword

\* The decoded fields of a share; 0 is a falsy value (missing, 0, "").
Envelopes == [threshold : 0..MaxThreshold, index : 0..MaxIndex, data : 0..1]

Item(k, e, p) ==
    [kind |-> k, threshold |-> e.threshold, index |-> e.index,
     data |-> e.data, pw |-> p]

Junk == [kind |-> "junk", threshold |-> 0, index |-> 0, data |-> 0, pw |-> 0]

\* What can be pasted, one unit per line.
PasteItems ==
    {Item("b64", e, 0) : e \in Envelopes}
      \cup {Junk}
      \cup {Item("pgp", e, p) :
               e \in {x \in Envelopes : x.threshold = CipherThreshold /\ x.index >= 1},
               p \in Passwords}

SeqsUpTo(S, n) == UNION {[1..k -> S] : k \in 0..n}

Envelope(x) == [threshold |-> x.threshold, index |-> x.index, data |-> x.data]

(***************************************************************************)
(* utils/validation.js                                                     *)
(***************************************************************************)
DefaultThreshold == 3

\* JSON.parse(atob(s)) throws on anything but a base64 JSON string.
ParseThrows(s) == s.kind \in {"junk", "pgp"}

\* isValidShareFormat: threshold && index && data on the parsed string.
isValidShareFormat(s) ==
    /\ ~ParseThrows(s)
    /\ s.threshold # 0 /\ s.index # 0 /\ s.data # 0

\* parseShareData: the parsed object, or null (here: FALSE in .ok).
parseShareData(s) ==
    IF isValidShareFormat(s) THEN [ok |-> TRUE, share |-> Envelope(s)]
    ELSE [ok |-> FALSE, share |-> Envelope(Junk)]

\* The forEach callback's test on one input: object used directly, string
\* parsed; valid when threshold && index !== undefined && data.
\* Every modelled field is defined, so index !== undefined is TRUE.
ShareDataOf(s) ==
    IF s.kind = "obj" THEN [ok |-> TRUE, share |-> Envelope(s)]
    ELSE parseShareData(s)

IsCountedShare(s) ==
    LET sd == ShareDataOf(s)
    IN  sd.ok /\ sd.share.threshold # 0 /\ TRUE /\ sd.share.data # 0

ErrInvalidFormat(line) == [kind |-> "InvalidFormat", line |-> line, need |-> 0, have |-> 0]
ErrNoValid == [kind |-> "NoValidShares", line |-> 0, need |-> 0, have |-> 0]
ErrInsufficient(need, have) ==
    [kind |-> "InsufficientShares", line |-> 0, need |-> need, have |-> have]
ErrDuplicate == [kind |-> "DuplicateShares", line |-> 0, need |-> 0, have |-> 0]

RECURSIVE FormatErrors(_, _)
FormatErrors(list, i) ==
    IF i > Len(list) THEN <<>>
    ELSE (IF IsCountedShare(list[i]) THEN <<>> ELSE <<ErrInvalidFormat(i)>>)
           \o FormatErrors(list, i + 1)

validateShareCollection_IgnoreErrors(list) ==
    LET valid   == SelectSeq(list, IsCountedShare)
        count   == Len(valid)
        indices == {valid[i].index : i \in 1..count}
        thr     == IF count > 0 THEN valid[1].threshold ELSE DefaultThreshold
    IN  [isValid |-> count >= thr, validCount |-> count, threshold |-> thr,
         errors |-> <<>>, shareIndices |-> indices]

validateShareCollection_Dedup(list) ==
    LET valid   == SelectSeq(list, IsCountedShare)
        indices == {valid[i].index : i \in 1..Len(valid)}
        count   == Cardinality(indices)
        thr     == IF Len(valid) > 0 THEN valid[1].threshold ELSE DefaultThreshold
        e1      == FormatErrors(list, 1)
        e2      == IF count = 0 THEN <<ErrNoValid>>
                   ELSE IF count < thr THEN <<ErrInsufficient(thr, count)>>
                   ELSE <<>>
        errs    == e1 \o e2
    IN  [isValid |-> Len(errs) = 0 /\ count >= thr, validCount |-> count,
         threshold |-> thr, errors |-> errs, shareIndices |-> indices]

validateShareCollection_LastThreshold(list) ==
    LET valid   == SelectSeq(list, IsCountedShare)
        count   == Len(valid)
        indices == {valid[i].index : i \in 1..count}
        thr     == IF count > 0 THEN valid[count].threshold ELSE DefaultThreshold
        e1      == FormatErrors(list, 1)
        e2      == IF count = 0 THEN <<ErrNoValid>>
                   ELSE IF count < thr THEN <<ErrInsufficient(thr, count)>>
                   ELSE <<>>
        e3      == IF Cardinality(indices) # count THEN <<ErrDuplicate>> ELSE <<>>
        errs    == e1 \o e2 \o e3
    IN  [isValid |-> Len(errs) = 0 /\ count >= thr, validCount |-> count,
         threshold |-> thr, errors |-> errs, shareIndices |-> indices]

validateShareCollection_NoElse(list) ==
    LET valid   == SelectSeq(list, IsCountedShare)
        count   == Len(valid)
        indices == {valid[i].index : i \in 1..count}
        thr     == IF count > 0 THEN valid[1].threshold ELSE DefaultThreshold
        e1      == FormatErrors(list, 1)
        e2      == (IF count = 0 THEN <<ErrNoValid>> ELSE <<>>)
                     \o (IF count < thr THEN <<ErrInsufficient(thr, count)>> ELSE <<>>)
        e3      == IF Cardinality(indices) # count THEN <<ErrDuplicate>> ELSE <<>>
        errs    == e1 \o e2 \o e3
    IN  [isValid |-> Len(errs) = 0 /\ count >= thr, validCount |-> count,
         threshold |-> thr, errors |-> errs, shareIndices |-> indices]

validateShareCollection(list) ==
    LET valid   == SelectSeq(list, IsCountedShare)          \* validShareData
        count   == Len(valid)                               \* validCount++
        indices == {valid[i].index : i \in 1..count}        \* shareIndices
        cands   == {valid[i].threshold : i \in 1..count} \ {0}
        thr     == IF count > 0 /\ valid[1].threshold # 0
                     THEN valid[1].threshold
                   ELSE IF cands # {}
                     \* every candidate is counted once, so the first inserted wins
                     THEN (LET f == CHOOSE i \in 1..count :
                                      /\ valid[i].threshold # 0
                                      /\ \A j \in 1..(i - 1) : valid[j].threshold = 0
                           IN  valid[f].threshold)
                   ELSE DefaultThreshold
        e1      == FormatErrors(list, 1)
        e2      == IF count = 0 THEN <<ErrNoValid>>
                   ELSE IF count < thr THEN <<ErrInsufficient(thr, count)>>
                   ELSE <<>>
        e3      == IF Cardinality(indices) # count THEN <<ErrDuplicate>> ELSE <<>>
        errs    == e1 \o e2 \o e3
    IN  [isValid |-> Len(errs) = 0 /\ count >= thr, validCount |-> count,
         threshold |-> thr, errors |-> errs, shareIndices |-> indices]

(***************************************************************************)
(* utils/encryption.js is not part of the sources; decryptWithPassword is  *)
(* modelled from its contract: the plaintext under the right password, an  *)
(* "invalid password" error under a wrong one, another error on input that *)
(* is no ciphertext.                                                       *)
(***************************************************************************)
decryptWithPassword(content, p) ==
    IF content.kind # "pgp" THEN [outcome |-> "error", plaintext |-> Junk]
    ELSE IF content.pw = p
      THEN [outcome |-> "ok", plaintext |-> Item("b64", Envelope(content), 0)]
    ELSE [outcome |-> "wrongPassword", plaintext |-> Junk]

(***************************************************************************)
(* ShareManager.recoverMnemonicWithShares                                  *)
(***************************************************************************)
\* What getCurrentShares returns on the Files tab: the shareData of the
\* files in status valid, which parseShareContent accepted with
\* threshold && index !== undefined && data.
UploadObjects ==
    {Item("obj", e, 0) : e \in {x \in Envelopes : x.threshold # 0 /\ x.data # 0}}

\* threshold && index && data
HasShareFields(s) == s.threshold # 0 /\ s.index # 0 /\ s.data # 0

\* One pass of the classification loop: "encrypted" (pushed as
\* {encrypted: true, content}), "plain" (pushed as is) or "dropped".
ClassifyShare(s) ==
    IF s.kind = "obj"
      THEN (IF HasShareFields(s) THEN "plain" ELSE "dropped")
    ELSE IF s.kind = "pgp" THEN "encrypted"      \* startsWith(BEGIN PGP MESSAGE)
    ELSE IF ParseThrows(s) THEN "encrypted"      \* catch (e)
    ELSE IF HasShareFields(s) THEN "plain"
    ELSE "dropped"

IsEncryptedEntry(s) == ClassifyShare(s) = "encrypted"
IsPlainEntry(s)     == ClassifyShare(s) = "plain"

Classified(list) == SelectSeq(list, LAMBDA s : ClassifyShare(s) # "dropped")

encryptedShares == SelectSeq(validShareData, IsEncryptedEntry)

RECURSIVE MapEnvelope(_)
MapEnvelope(list) ==
    IF list = <<>> THEN <<>> ELSE <<Envelope(Head(list))>> \o MapEnvelope(Tail(list))

\* validShareData.filter(!encrypted).concat(decryptedShares)
finalShares == MapEnvelope(SelectSeq(validShareData, IsPlainEntry)) \o decryptedShares

NoResult == [status |-> "none", reason |-> "", need |-> 0, have |-> 0]
Failed(reason) == [status |-> "Failed", reason |-> reason, need |-> 0, have |-> 0]
FailedInsufficient(need, have) ==
    [status |-> "Failed", reason |-> "errors.insufficientShares",
     need |-> need, have |-> have]
Succeeded(used, thr) ==
    [status |-> "Succeeded", reason |-> "", need |-> thr, have |-> used]

\* slice(0, threshold)
Slice(list, n) == SubSeq(list, 1, IF n < Len(list) THEN n ELSE Len(list))

\* The tail both paths share: no shares, too few shares, or the call of
\* combine on the first threshold shares.
Reconstruct_NoCountCheck(final, emptyReason) ==
    IF Len(final) = 0
      THEN /\ result' = Failed(emptyReason)
           /\ pc' = "done"
           /\ recoverBtnDisabled' = FALSE
           /\ UNCHANGED <<combineArgs, combineCalled, combineCalls, shownThreshold>>
    ELSE /\ combineArgs' = Slice(final, final[1].threshold)
         /\ combineCalled' = TRUE
         /\ combineCalls' = Append(combineCalls, "bytes")
         /\ recoverBtnDisabled' = TRUE
         /\ shownThreshold' = final[1].threshold
         /\ pc' = "combine"
         /\ UNCHANGED result

Reconstruct(final, emptyReason) ==
    IF Len(final) = 0
      THEN /\ result' = Failed(emptyReason)
           /\ pc' = "done"
           /\ recoverBtnDisabled' = FALSE
           /\ UNCHANGED <<combineArgs, combineCalled, combineCalls, shownThreshold>>
    ELSE LET threshold == final[1].threshold
         IN  IF Len(final) < threshold
               THEN /\ result' = FailedInsufficient(threshold, Len(final))
                    /\ shownThreshold' = threshold
                    /\ pc' = "done"
                    /\ recoverBtnDisabled' = FALSE
                    /\ UNCHANGED <<combineArgs, combineCalled, combineCalls>>
             ELSE /\ combineArgs' = Slice(final, threshold)
                  /\ combineCalled' = TRUE
                  /\ combineCalls' = Append(combineCalls, "bytes")
                  /\ recoverBtnDisabled' = TRUE
                  /\ shownThreshold' = threshold
                  /\ pc' = "combine"
                  /\ UNCHANGED result

\* handleRecoverMnemonic: an empty share list is refused before the call.
RecoverEmpty ==
    /\ pc = "idle"
    /\ Len(shares) = 0
    /\ result' = Failed("errors.noValidShares")
    /\ pc' = "done"
    /\ recoverBtnDisabled' = FALSE
    /\ UNCHANGED <<activeTab, shares, isEncrypted, validShareData, password,
                   isRetry, encIdx, decryptedShares, combineArgs, combineCalled, combineCalls,
                   shownThreshold, prompts, cancelledAt, decryptedWith>>
    /\ UNCHANGED <<validateVars, uploadVars>>
    /\ UNCHANGED pageVars

\* Classification found an encrypted input: the first prompt is issued.
RecoverStartEncrypted ==
    /\ pc = "idle"
    /\ Len(shares) > 0
    /\ \E i \in 1..Len(shares) : IsEncryptedEntry(shares[i])
    /\ validShareData' = Classified(shares)
    /\ isEncrypted' = TRUE
    /\ isRetry' = FALSE
    /\ prompts' = Append(prompts, FALSE)
    /\ pc' = "prompt"
    /\ recoverBtnDisabled' = TRUE
    /\ UNCHANGED <<activeTab, shares, password, encIdx, decryptedShares,
                   combineArgs, combineCalled, combineCalls, shownThreshold, result,
                   cancelledAt, decryptedWith>>
    /\ UNCHANGED <<validateVars, uploadVars>>
    /\ UNCHANGED pageVars

\* Plain path: no encrypted input.
RecoverStartPlain ==
    /\ pc = "idle"
    /\ Len(shares) > 0
    /\ \A i \in 1..Len(shares) : ~IsEncryptedEntry(shares[i])
    /\ validShareData' = Classified(shares)
    /\ isEncrypted' = FALSE
    /\ Reconstruct(MapEnvelope(Classified(shares)), "errors.noValidShares")
    /\ UNCHANGED <<activeTab, shares, password, isRetry, encIdx, decryptedShares,
                   prompts, cancelledAt, decryptedWith>>
    /\ UNCHANGED <<validateVars, uploadVars>>
    /\ UNCHANGED pageVars

\* The first prompt is confirmed with password p.
PasswordSupplied(p) ==
    /\ pc = "prompt"
    /\ password' = p
    /\ encIdx' = 1
    /\ pc' = "decrypt"
    /\ UNCHANGED recoverBtnDisabled
    /\ UNCHANGED <<activeTab, shares, isEncrypted, validShareData, isRetry,
                   decryptedShares, combineArgs, combineCalled, combineCalls, shownThreshold,
                   result, prompts, cancelledAt, decryptedWith>>
    /\ UNCHANGED <<validateVars, uploadVars>>
    /\ UNCHANGED pageVars

\* The first prompt is cancelled: throw passwordRequired.
PasswordCancelled ==
    /\ pc = "prompt"
    /\ cancelledAt' = cancelledAt \cup {Len(prompts)}
    /\ result' = Failed("encryption.passwordRequired")
    /\ pc' = "done"
    /\ recoverBtnDisabled' = FALSE
    /\ UNCHANGED <<activeTab, shares, isEncrypted, validShareData, password,
                   isRetry, encIdx, decryptedShares, combineArgs, combineCalled, combineCalls,
                   shownThreshold, prompts, decryptedWith>>
    /\ UNCHANGED <<validateVars, uploadVars>>
    /\ UNCHANGED pageVars

\* One pass of the loop over encryptedShares with the current password.
DecryptNext ==
    /\ pc = "decrypt"
    /\ encIdx <= Len(encryptedShares)
    /\ UNCHANGED recoverBtnDisabled
    /\ LET d == decryptWithPassword(encryptedShares[encIdx], password)
       IN  CASE d.outcome = "ok" ->
                  /\ IF HasShareFields(d.plaintext)
                       THEN /\ decryptedShares' = Append(decryptedShares, Envelope(d.plaintext))
                            /\ decryptedWith' = Append(decryptedWith, password)
                     ELSE UNCHANGED <<decryptedShares, decryptedWith>>
                  /\ encIdx' = encIdx + 1
                  /\ UNCHANGED <<pc, isRetry, prompts>>
             [] d.outcome = "wrongPassword" ->
                  /\ isRetry' = TRUE
                  /\ prompts' = Append(prompts, TRUE)
                  /\ pc' = "retryPrompt"
                  /\ UNCHANGED <<encIdx, decryptedShares, decryptedWith>>
             [] OTHER ->
                  /\ encIdx' = encIdx + 1
                  /\ UNCHANGED <<pc, isRetry, prompts, decryptedShares, decryptedWith>>
    /\ UNCHANGED <<activeTab, shares, isEncrypted, validShareData, password,
                   combineArgs, combineCalled, combineCalls, shownThreshold, result, cancelledAt>>
    /\ UNCHANGED <<validateVars, uploadVars>>
    /\ UNCHANGED pageVars

\* The retry prompt is confirmed with p: the share at hand is tried again.
RetrySupplied(p) ==
    /\ pc = "retryPrompt"
    /\ password' = p
    /\ LET d == decryptWithPassword(encryptedShares[encIdx], p)
       IN  CASE d.outcome = "ok" ->
                  /\ IF HasShareFields(d.plaintext)
                       THEN /\ decryptedShares' = Append(decryptedShares, Envelope(d.plaintext))
                            /\ decryptedWith' = Append(decryptedWith, p)
                     ELSE UNCHANGED <<decryptedShares, decryptedWith>>
                  /\ encIdx' = encIdx + 1
                  /\ pc' = "decrypt"
                  /\ UNCHANGED <<result, recoverBtnDisabled>>
             [] d.outcome = "wrongPassword" ->
                  /\ result' = Failed("encryption.invalidPassword")
                  /\ pc' = "done"
                  /\ recoverBtnDisabled' = FALSE
                  /\ UNCHANGED <<encIdx, decryptedShares, decryptedWith>>
             [] OTHER ->
                  /\ encIdx' = encIdx + 1
                  /\ pc' = "decrypt"
                  /\ UNCHANGED <<result, decryptedShares, decryptedWith,
                                 recoverBtnDisabled>>
    /\ UNCHANGED <<activeTab, shares, isEncrypted, validShareData, isRetry,
                   combineArgs, combineCalled, combineCalls, shownThreshold, prompts, cancelledAt>>
    /\ UNCHANGED <<validateVars, uploadVars>>
    /\ UNCHANGED pageVars

RetryCancelled_Stay ==
    /\ pc = "retryPrompt"
    /\ cancelledAt' = cancelledAt \cup {Len(prompts)}
    /\ pc' = "decrypt"
    /\ UNCHANGED <<activeTab, shares, isEncrypted, validShareData, password,
                   isRetry, encIdx, decryptedShares, combineArgs, combineCalled,
                   combineCalls, shownThreshold, result, prompts, decryptedWith>>
    /\ UNCHANGED <<validateVars, uploadVars, recoverBtnDisabled>>
    /\ UNCHANGED pageVars

\* The retry prompt is cancelled: the rejection lands in catch (retryError),
\* its message matches no password pattern, the loop goes on.
RetryCancelled ==
    /\ pc = "retryPrompt"
    /\ cancelledAt' = cancelledAt \cup {Len(prompts)}
    /\ encIdx' = encIdx + 1
    /\ pc' = "decrypt"
    /\ UNCHANGED recoverBtnDisabled
    /\ UNCHANGED <<activeTab, shares, isEncrypted, validShareData, password,
                   isRetry, decryptedShares, combineArgs, combineCalled, combineCalls,
                   shownThreshold, result, prompts, decryptedWith>>
    /\ UNCHANGED <<validateVars, uploadVars>>
    /\ UNCHANGED pageVars

\* After the loop: merge decrypted with plain shares and reconstruct.
MergeDecrypted ==
    /\ pc = "decrypt"
    /\ encIdx > Len(encryptedShares)
    /\ Reconstruct(finalShares, "encryption.decryptionFailed+errors.noValidShares")
    /\ UNCHANGED <<activeTab, shares, isEncrypted, validShareData, password,
                   isRetry, encIdx, decryptedShares, prompts, cancelledAt,
                   decryptedWith>>
    /\ UNCHANGED <<validateVars, uploadVars>>
    /\ UNCHANGED pageVars

\* await combine(shareBytes) returns the secret.
CombineReturns ==
    /\ pc = "combine"
    /\ result' = Succeeded(Len(finalShares), shownThreshold)
    /\ pc' = "done"
    /\ recoverBtnDisabled' = FALSE
    /\ UNCHANGED <<activeTab, shares, isEncrypted, validShareData, password,
                   isRetry, encIdx, decryptedShares, combineArgs, combineCalled, combineCalls,
                   shownThreshold, prompts, cancelledAt, decryptedWith>>
    /\ UNCHANGED <<validateVars, uploadVars>>
    /\ UNCHANGED pageVars

\* await combine(shareBytes) throws: the catch shows the raw message.
CombineThrows ==
    /\ pc = "combine"
    /\ result' = Failed("combine:error.message")
    /\ pc' = "done"
    /\ recoverBtnDisabled' = FALSE
    /\ UNCHANGED <<activeTab, shares, isEncrypted, validShareData, password,
                   isRetry, encIdx, decryptedShares, combineArgs, combineCalled, combineCalls,
                   shownThreshold, prompts, cancelledAt, decryptedWith>>
    /\ UNCHANGED <<validateVars, uploadVars>>
    /\ UNCHANGED pageVars

(***************************************************************************)
(* RecoveryTabManager: uploaded files and their decryption                 *)
(***************************************************************************)
FileNames == 1..MaxFiles

NullShare == Envelope(Junk)

\* What a selected file can hold: text for .txt, ciphertext or anything
\* else for .gpg.
FileContents == PasteItems

\* parseShareContent: the share object, or {encrypted: true, content}.
\* (index !== undefined holds of every modelled field.)
parseShareContent(content) ==
    IF content.kind = "pgp" THEN [encrypted |-> TRUE, share |-> NullShare]
    ELSE IF ~ParseThrows(content) /\ content.threshold # 0 /\ TRUE /\ content.data # 0
      THEN [encrypted |-> FALSE, share |-> Envelope(content)]
    ELSE [encrypted |-> TRUE, share |-> NullShare]

FileData(name, gpg, content, status, shareData) ==
    [name |-> name, isEncrypted |-> gpg, content |-> content,
     status |-> status, shareData |-> shareData]

\* processFile once the content is read.
ProcessedFile(name, gpg, content) ==
    IF gpg THEN FileData(name, gpg, content, "encrypted", NullShare)
    ELSE LET sd == parseShareContent(content)
         IN  IF ~sd.encrypted
               THEN FileData(name, gpg, content, "valid", sd.share)
             ELSE FileData(name, gpg, content, "invalid", NullShare)

\* getCurrentShares on the Files tab: the shareData of the files in status
\* valid, in list order.
RECURSIVE ValidShareObjects(_)
ValidShareObjects(files) ==
    IF files = <<>> THEN <<>>
    ELSE (IF Head(files).status = "valid"
            THEN <<Item("obj", Head(files).shareData, 0)>>
          ELSE <<>>) \o ValidShareObjects(Tail(files))

\* validateCurrentShares: the value it leaves in recoverBtn.disabled.
validateCurrentShares(files) ==
    LET allShares == ValidShareObjects(files)
        encryptedFiles == SelectSeq(files, LAMBDA f : f.status = "encrypted")
    IN  IF Len(allShares) = 0 /\ Len(encryptedFiles) = 0 THEN TRUE
        ELSE IF Len(allShares) = 0 /\ Len(encryptedFiles) > 0 THEN FALSE
        ELSE ~validateShareCollection(allShares).isValid

\* validateFileUpload
validateFileUpload(files) ==
    IF Len(files) = 0 THEN TRUE ELSE validateCurrentShares(files)

\* validatePasteInput with processValidationResult, on the lines of the
\* textarea.
validatePasteInput(lines) ==
    IF Len(lines) = 0 THEN TRUE ELSE ~validateShareCollection(lines).isValid

\* validateCurrentTab
validateCurrentTab(tab, files, lines) ==
    IF tab = "paste" THEN validatePasteInput(lines) ELSE validateFileUpload(files)

\* handleFileSelect of one file: validateFiles refuses a name already in
\* the list, processFile appends it and sets its status.
HandleFileSelect(name, gpg, content) ==
    /\ Len(uploadedFiles) < MaxFiles
    /\ \A i \in 1..Len(uploadedFiles) : uploadedFiles[i].name # name
    /\ uploadedFiles' = Append(uploadedFiles, ProcessedFile(name, gpg, content))
    /\ recoverBtnDisabled' = validateCurrentShares(uploadedFiles')
    /\ UNCHANGED <<uploadPassword, wrongTried, rightTried>>
    /\ UNCHANGED <<validateVars, recoverVars>>
    /\ UNCHANGED pageVars

\* removeFile(index)
RemoveFile(i) ==
    /\ i \in 1..Len(uploadedFiles)
    /\ uploadedFiles' = SubSeq(uploadedFiles, 1, i - 1)
                          \o SubSeq(uploadedFiles, i + 1, Len(uploadedFiles))
    /\ wrongTried' = wrongTried \ {uploadedFiles[i].name}
    /\ rightTried' = rightTried \ {uploadedFiles[i].name}
    /\ recoverBtnDisabled' = validateCurrentTab(activeTab, uploadedFiles', shareStrings)
    /\ UNCHANGED uploadPassword
    /\ UNCHANGED <<validateVars, recoverVars>>
    /\ UNCHANGED pageVars

\* input listener of #uploadEncryptionPassword; 0 is the empty string.
TypeUploadPassword(p) ==
    /\ uploadPassword' = p
    /\ UNCHANGED <<uploadedFiles, wrongTried, rightTried, recoverBtnDisabled>>
    /\ UNCHANGED <<validateVars, recoverVars>>
    /\ UNCHANGED pageVars

\* The body of retryDecryption's loop on one file: any failure, a wrong
\* password included, leaves the file in status invalid.
DecryptedFile(file, p) ==
    LET d == decryptWithPassword(file.content, p)
    IN  IF d.outcome = "ok"
          THEN (LET sd == parseShareContent(d.plaintext)
                IN  IF ~sd.encrypted
                      THEN [file EXCEPT !.status = "valid", !.shareData = sd.share]
                    ELSE [file EXCEPT !.status = "invalid"])
        ELSE [file EXCEPT !.status = "invalid"]

\* applyDecryption, with retryDecryption over the files in status encrypted.
ApplyDecryption ==
    /\ Len(uploadedFiles) > 0
    /\ rightTried' = rightTried \cup
         {uploadedFiles[i].name : i \in
            {j \in 1..Len(uploadedFiles) :
               /\ uploadedFiles[j].name \in wrongTried
               /\ uploadedFiles[j].content.kind = "pgp"
               /\ uploadedFiles[j].content.pw = uploadPassword}}
    /\ IF uploadPassword = 0
         \/ \A i \in 1..Len(uploadedFiles) : uploadedFiles[i].status # "encrypted"
         THEN UNCHANGED <<uploadedFiles, wrongTried, recoverBtnDisabled>>
       ELSE /\ uploadedFiles' =
                 [i \in 1..Len(uploadedFiles) |->
                    IF uploadedFiles[i].status = "encrypted"
                      THEN DecryptedFile(uploadedFiles[i], uploadPassword)
                    ELSE uploadedFiles[i]]
            /\ recoverBtnDisabled' = validateCurrentShares(uploadedFiles')
            /\ wrongTried' = wrongTried \cup
                 {uploadedFiles[i].name : i \in
                    {j \in 1..Len(uploadedFiles) :
                       /\ uploadedFiles[j].status = "encrypted"
                       /\ decryptWithPassword(uploadedFiles[j].content,
                                              uploadPassword).outcome = "wrongPassword"}}
    /\ UNCHANGED uploadPassword
    /\ UNCHANGED <<validateVars, recoverVars>>
    /\ UNCHANGED pageVars

(***************************************************************************)
(* MnemonicSplitApp and ShareManager: the generation panel                 *)
(***************************************************************************)
MIN_SHARES == 3
MAX_SHARES == 7
DEFAULT_TOTAL_SHARES == 5
DEFAULT_THRESHOLD == 3

\* updateTotalSharesOptions: the totals offered.
TotalSharesOptions == MIN_SHARES..MAX_SHARES

\* Math.min(currentThreshold, totalShares)
MinOf(a, b) == IF a < b THEN a ELSE b

\* updateThresholdOptions: the options are rebuilt as 2..totalShares and the
\* one equal to min(currentThreshold, totalShares) is selected.
updateThresholdOptions(total, currentThreshold) ==
    [options |-> 2..total, selected |-> MinOf(currentThreshold, total)]

\* change event of #totalShares.
ChangeTotalShares(n) ==
    /\ n # totalSharesSelect
    /\ totalSharesSelect' = n
    /\ thresholdOptions' = updateThresholdOptions(n, thresholdSelect).options
    /\ thresholdSelect' = updateThresholdOptions(n, thresholdSelect).selected
    /\ UNCHANGED <<isEncryptionEnabled, encryptionPasswordField,
                   encryptionPassword, downloadPc>>
    /\ UNCHANGED <<validateVars, recoverVars, uploadVars, recoverBtnDisabled>>
    /\ UNCHANGED <<swVars, dialogVars, intakeVars>>

\* The user picks one of the thresholds offered.
ChangeThreshold(t) ==
    /\ t \in thresholdOptions
    /\ t # thresholdSelect
    /\ thresholdSelect' = t
    /\ UNCHANGED <<totalSharesSelect, thresholdOptions, isEncryptionEnabled,
                   encryptionPasswordField, encryptionPassword, downloadPc>>
    /\ UNCHANGED <<validateVars, recoverVars, uploadVars, recoverBtnDisabled>>
    /\ UNCHANGED <<swVars, dialogVars, intakeVars>>

\* change event of the encryption checkbox: switching it off wipes the
\* password fields and ShareManager.encryptionPassword.
ChangeEnableEncryption ==
    /\ isEncryptionEnabled' = ~isEncryptionEnabled
    /\ IF isEncryptionEnabled
         THEN encryptionPasswordField' = 0 /\ encryptionPassword' = 0
       ELSE UNCHANGED <<encryptionPasswordField, encryptionPassword>>
    /\ UNCHANGED <<totalSharesSelect, thresholdSelect, thresholdOptions, downloadPc>>
    /\ UNCHANGED <<validateVars, recoverVars, uploadVars, recoverBtnDisabled>>
    /\ UNCHANGED <<swVars, dialogVars, intakeVars>>

\* The user types a strong password p, and the same in the confirmation
\* field, or empties both (0).
TypeEncryptionPassword(p) ==
    /\ isEncryptionEnabled
    /\ p # encryptionPasswordField
    /\ encryptionPasswordField' = p
    /\ UNCHANGED <<totalSharesSelect, thresholdSelect, thresholdOptions,
                   isEncryptionEnabled, encryptionPassword, downloadPc>>
    /\ UNCHANGED <<validateVars, recoverVars, uploadVars, recoverBtnDisabled>>
    /\ UNCHANGED <<swVars, dialogVars, intakeVars>>

\* downloadShare with encryption enabled and valid settings:
\* validateEncryptionSettings stores the password, downloadEncryptedShare
\* calls encryptWithPassword.
DownloadShare ==
    /\ downloadPc = "idle"
    /\ isEncryptionEnabled
    /\ encryptionPasswordField # 0
    /\ encryptionPassword' = encryptionPasswordField
    /\ downloadPc' = "encrypting"
    /\ UNCHANGED <<totalSharesSelect, thresholdSelect, thresholdOptions,
                   isEncryptionEnabled, encryptionPasswordField>>
    /\ UNCHANGED <<validateVars, recoverVars, uploadVars, recoverBtnDisabled>>
    /\ UNCHANGED <<swVars, dialogVars, intakeVars>>

\* encryptWithPassword returns: clearEncryptionPassword, then the file is saved.
EncryptReturns ==
    /\ downloadPc = "encrypting"
    /\ encryptionPassword' = 0
    /\ downloadPc' = "idle"
    /\ UNCHANGED <<totalSharesSelect, thresholdSelect, thresholdOptions,
                   isEncryptionEnabled, encryptionPasswordField>>
    /\ UNCHANGED <<validateVars, recoverVars, uploadVars, recoverBtnDisabled>>
    /\ UNCHANGED <<swVars, dialogVars, intakeVars>>

\* encryptWithPassword throws: the catch clears the password and rethrows.
EncryptThrows ==
    /\ downloadPc = "encrypting"
    /\ encryptionPassword' = 0
    /\ downloadPc' = "idle"
    /\ UNCHANGED <<totalSharesSelect, thresholdSelect, thresholdOptions,
                   isEncryptionEnabled, encryptionPasswordField>>
    /\ UNCHANGED <<validateVars, recoverVars, uploadVars, recoverBtnDisabled>>
    /\ UNCHANGED <<swVars, dialogVars, intakeVars>>

\* The panel after init(): the default total, and updateThresholdOptions run
\* on the default threshold.
GenerateIdle ==
    /\ totalSharesSelect = DEFAULT_TOTAL_SHARES
    /\ thresholdSelect = DEFAULT_THRESHOLD
    /\ thresholdOptions = updateThresholdOptions(DEFAULT_TOTAL_SHARES, DEFAULT_THRESHOLD).options
    /\ isEncryptionEnabled = FALSE
    /\ encryptionPasswordField = 0
    /\ encryptionPassword = 0
    /\ downloadPc = "idle"

(***************************************************************************)
(* public/sw.js: the service worker                                        *)
(***************************************************************************)
SwUrls == 1..MaxUrls

\* The URL '/'.
Root == 1

Methods == {"GET", "POST"}

Request(u, so, m, at, resp, net, cch) ==
    [url |-> u, sameOrigin |-> so, method |-> m, pc |-> at, response |-> resp,
     viaNetwork |-> net, viaCache |-> cch,
     afterOk |-> so /\ m = "GET" /\ u \in swNetOk]

\* install: cache.add('/') is best effort (ok tells whether it stored the
\* root), then skipWaiting; activate only deletes caches of other names.
SwInstall(ok) ==
    /\ swState = "installing"
    /\ swState' = "active"
    /\ swCache' = IF ok THEN swCache \cup {Root} ELSE swCache
    /\ swNetOk' = IF ok THEN swNetOk \cup {Root} ELSE swNetOk
    /\ UNCHANGED <<swPuts, swRequests>>
    /\ UNCHANGED <<validateVars, recoverVars, uploadVars, recoverBtnDisabled>>
    /\ UNCHANGED <<generateVars, dialogVars, intakeVars>>

FetchEvent_MethodFirst(u, so, m) ==
    /\ swState = "active"
    /\ Len(swRequests) < MaxRequests
    /\ swRequests' = Append(swRequests,
         IF m # "GET" THEN Request(u, so, m, "passthrough", "none", TRUE, FALSE)
         ELSE IF ~so THEN Request(u, so, m, "responded", "403", FALSE, FALSE)
         ELSE Request(u, so, m, "match", "none", FALSE, TRUE))
    /\ UNCHANGED <<swState, swCache, swPuts, swNetOk>>
    /\ UNCHANGED <<validateVars, recoverVars, uploadVars, recoverBtnDisabled>>
    /\ UNCHANGED <<generateVars, dialogVars, intakeVars>>

\* The fetch listener up to its first await: another origin is answered
\* with 403, a same-origin non-GET is passed to fetch, a same-origin GET
\* opens the cache and looks the request up.
FetchEvent(u, so, m) ==
    /\ swState = "active"
    /\ Len(swRequests) < MaxRequests
    /\ swRequests' = Append(swRequests,
         IF ~so THEN Request(u, so, m, "responded", "403", FALSE, FALSE)
         ELSE IF m # "GET" THEN Request(u, so, m, "passthrough", "none", TRUE, FALSE)
         ELSE Request(u, so, m, "match", "none", FALSE, TRUE))
    /\ UNCHANGED <<swState, swCache, swPuts, swNetOk>>
    /\ UNCHANGED <<validateVars, recoverVars, uploadVars, recoverBtnDisabled>>
    /\ UNCHANGED <<generateVars, dialogVars, intakeVars>>

\* await cache.match(req) returns: the cached response is the answer, or
\* fetch(req) is called.
CacheMatchReturns(i) ==
    /\ i \in 1..Len(swRequests)
    /\ swRequests[i].pc = "match"
    /\ swRequests' =
         [swRequests EXCEPT ![i] =
            IF swRequests[i].url \in swCache
              THEN [@ EXCEPT !.pc = "responded", !.response = "cached"]
            ELSE [@ EXCEPT !.pc = "fetch", !.viaNetwork = TRUE]]
    /\ UNCHANGED <<swState, swCache, swPuts, swNetOk>>
    /\ UNCHANGED <<validateVars, recoverVars, uploadVars, recoverBtnDisabled>>
    /\ UNCHANGED <<generateVars, dialogVars, intakeVars>>

\* await fetch(req) returns a response: an ok one is handed to cache.put,
\* which is not awaited, and the response is the answer.
FetchReturns(i, ok) ==
    /\ i \in 1..Len(swRequests)
    /\ swRequests[i].pc = "fetch"
    /\ swRequests' =
         [swRequests EXCEPT ![i] =
            [@ EXCEPT !.pc = "responded",
                      !.response = IF ok THEN "ok" ELSE "notOk"]]
    /\ swPuts' = IF ok THEN swPuts \cup {swRequests[i].url} ELSE swPuts
    /\ swNetOk' = IF ok THEN swNetOk \cup {swRequests[i].url} ELSE swNetOk
    /\ UNCHANGED <<swState, swCache>>
    /\ UNCHANGED <<validateVars, recoverVars, uploadVars, recoverBtnDisabled>>
    /\ UNCHANGED <<generateVars, dialogVars, intakeVars>>

\* await fetch(req) throws: the catch looks the root up in the cache.
FetchThrows(i) ==
    /\ i \in 1..Len(swRequests)
    /\ swRequests[i].pc = "fetch"
    /\ swRequests' = [swRequests EXCEPT ![i] = [@ EXCEPT !.pc = "offline"]]
    /\ UNCHANGED <<swState, swCache, swPuts, swNetOk>>
    /\ UNCHANGED <<validateVars, recoverVars, uploadVars, recoverBtnDisabled>>
    /\ UNCHANGED <<generateVars, dialogVars, intakeVars>>

\* await cache.match('/') returns: the cached root, else 503.
OfflineMatchReturns(i) ==
    /\ i \in 1..Len(swRequests)
    /\ swRequests[i].pc = "offline"
    /\ swRequests' =
         [swRequests EXCEPT ![i] =
            [@ EXCEPT !.pc = "responded",
                      !.response = IF Root \in swCache THEN "cachedRoot" ELSE "503"]]
    /\ UNCHANGED <<swState, swCache, swPuts, swNetOk>>
    /\ UNCHANGED <<validateVars, recoverVars, uploadVars, recoverBtnDisabled>>
    /\ UNCHANGED <<generateVars, dialogVars, intakeVars>>

\* The fetch(req) of a same-origin non-GET settles; nothing is cached.
PassThroughSettles(i, outcome) ==
    /\ i \in 1..Len(swRequests)
    /\ swRequests[i].pc = "passthrough"
    /\ swRequests' =
         [swRequests EXCEPT ![i] = [@ EXCEPT !.pc = "responded", !.response = outcome]]
    /\ UNCHANGED <<swState, swCache, swPuts, swNetOk>>
    /\ UNCHANGED <<validateVars, recoverVars, uploadVars, recoverBtnDisabled>>
    /\ UNCHANGED <<generateVars, dialogVars, intakeVars>>

\* A cache.put started by an ok response completes: the URL is stored.
CachePutCompletes(u) ==
    /\ u \in swPuts
    /\ swCache' = swCache \cup {u}
    /\ swPuts' = swPuts \ {u}
    /\ UNCHANGED <<swState, swRequests, swNetOk>>
    /\ UNCHANGED <<validateVars, recoverVars, uploadVars, recoverBtnDisabled>>
    /\ UNCHANGED <<generateVars, dialogVars, intakeVars>>

\* The worker before its install event.
SwIdle ==
    /\ swState = "installing"
    /\ swCache = {}
    /\ swPuts = {}
    /\ swRequests = <<>>
    /\ swNetOk = {}

(***************************************************************************)
(* PasswordDialog (src/unnamed/part_008)                                   *)
(***************************************************************************)
\* A promise returned by show: pending, resolved with value, or rejected;
\* typed is the content of the input field of the prompt it belongs to.
Pending == [state |-> "pending", value |-> 0, typed |-> 0]

Settle(ps, k, st, v) ==
    IF k \in 1..Len(ps) /\ ps[k].state = "pending"
      THEN [ps EXCEPT ![k] = [@ EXCEPT !.state = st, !.value = v]]
    ELSE ps

\* show(isRetry): the callbacks of the new promise replace the stored ones,
\* createDialog removes an existing overlay and mounts a new one with an
\* empty input field.  currentPassword is not touched.
Show(r) ==
    /\ Len(promises) < MaxPrompts
    /\ dialogIsRetry' = r
    /\ promises' = Append(promises, Pending)
    /\ resolveCallback' = Len(promises) + 1
    /\ rejectCallback' = Len(promises) + 1
    /\ dialogMounted' = TRUE
    /\ dialogInput' = 0
    /\ isVisible' = TRUE
    /\ UNCHANGED currentPassword
    /\ UNCHANGED <<validateVars, recoverVars, uploadVars, recoverBtnDisabled>>
    /\ UNCHANGED <<generateVars, swVars, intakeVars>>

\* input event of #dialogPasswordInput: currentPassword = input.value.
TypeDialogInput(p) ==
    /\ dialogMounted
    /\ p # dialogInput
    /\ dialogInput' = p
    /\ currentPassword' = p
    /\ promises' = [promises EXCEPT ![resolveCallback] = [@ EXCEPT !.typed = p]]
    /\ UNCHANGED <<isVisible, dialogMounted, resolveCallback, rejectCallback,
                   dialogIsRetry>>
    /\ UNCHANGED <<validateVars, recoverVars, uploadVars, recoverBtnDisabled>>
    /\ UNCHANGED <<generateVars, swVars, intakeVars>>

\* handleConfirm (confirm button or Enter): nothing happens on an empty
\* currentPassword; otherwise the dialog is removed and the stored resolve
\* callback is called with currentPassword.
HandleConfirm ==
    /\ dialogMounted
    /\ IF currentPassword = 0
         THEN UNCHANGED <<dialogMounted, isVisible, promises>>
       ELSE /\ dialogMounted' = FALSE
            /\ isVisible' = FALSE
            /\ promises' = Settle(promises, resolveCallback, "resolved", currentPassword)
    /\ UNCHANGED <<dialogInput, currentPassword, resolveCallback, rejectCallback,
                   dialogIsRetry>>
    /\ UNCHANGED <<validateVars, recoverVars, uploadVars, recoverBtnDisabled>>
    /\ UNCHANGED <<generateVars, swVars, intakeVars>>

\* handleCancel (cancel button or a click on the overlay): the dialog is
\* removed and the stored reject callback is called.
HandleCancel ==
    /\ dialogMounted
    /\ dialogMounted' = FALSE
    /\ isVisible' = FALSE
    /\ promises' = Settle(promises, rejectCallback, "rejected", 0)
    /\ UNCHANGED <<dialogInput, currentPassword, resolveCallback, rejectCallback,
                   dialogIsRetry>>
    /\ UNCHANGED <<validateVars, recoverVars, uploadVars, recoverBtnDisabled>>
    /\ UNCHANGED <<generateVars, swVars, intakeVars>>

\* The dialog after its constructor.
DialogIdle ==
    /\ isVisible = FALSE
    /\ dialogMounted = FALSE
    /\ dialogInput = 0
    /\ currentPassword = 0
    /\ resolveCallback = 0
    /\ rejectCallback = 0
    /\ dialogIsRetry = FALSE
    /\ promises = <<>>

(***************************************************************************)
(* RecoveryTabManager: file intake and decryption, await by await          *)
(***************************************************************************)
\* A File handed to handleFileSelect: its name, whether the name ends in
\* .gpg, and the content a read of it returns.
SelectedFile(n, g, c) == [name |-> n, gpg |-> g, content |-> c]

NamesOf(files) == {files[i].name : i \in 1..Len(files)}

\* validateFiles: a file is refused when uploadedFiles holds its name.
validateFiles(files) ==
    SelectSeq(files, LAMBDA f : f.name \notin NamesOf(uploadedFiles))

\* processFile up to await readFileContent: the entry is pushed in status
\* processing.
ProcessingFile(f) == FileData(f.name, f.gpg, Junk, "processing", NullShare)

BatchOf(files, at) == [cur |-> Head(files), rest |-> Tail(files), at |-> at]

\* The files selected and not pushed yet.
RECURSIVE PendingCount(_)
PendingCount(bs) ==
    IF bs = <<>> THEN 0 ELSE Len(Head(bs).rest) + PendingCount(Tail(bs))

RemoveAt(q, i) == SubSeq(q, 1, i - 1) \o SubSeq(q, i + 1, Len(q))

\* handleFileSelect(files) up to the first await: validateFiles, then
\* processFiles starts processFile on the first file kept.
HandleFileSelectBatch(files) ==
    /\ Len(uploadedFiles) + PendingCount(readBatches) + Len(files) <= MaxIntakeFiles
    /\ validateFiles(files) # <<>>
    /\ uploadedFiles' = Append(uploadedFiles, ProcessingFile(Head(validateFiles(files))))
    /\ readBatches' = Append(readBatches,
                             BatchOf(validateFiles(files), Len(uploadedFiles) + 1))
    /\ UNCHANGED <<uploadPassword, wrongTried, rightTried, recoverBtnDisabled,
                   decryptRuns>>
    /\ UNCHANGED <<validateVars, recoverVars>>
    /\ UNCHANGED <<generateVars, swVars, dialogVars>>

\* After processFile of the current file of batch b: processFile of the
\* next file pushes its entry, or the loop is over and validateCurrentShares
\* runs.
BatchGoesOn(b, files) ==
    IF readBatches[b].rest # <<>>
      THEN /\ uploadedFiles' = Append(files, ProcessingFile(Head(readBatches[b].rest)))
           /\ readBatches' = [readBatches EXCEPT
                                 ![b] = BatchOf(readBatches[b].rest, Len(files) + 1)]
           /\ UNCHANGED recoverBtnDisabled
    ELSE /\ uploadedFiles' = files
         /\ readBatches' = RemoveAt(readBatches, b)
         /\ recoverBtnDisabled' = validateCurrentShares(files)

\* await readFileContent(file) returns in batch b: the entry gets its
\* content and its status.
ReadFileContentReturns(b) ==
    /\ b \in 1..Len(readBatches)
    /\ LET f == readBatches[b].cur
       IN  BatchGoesOn(b, [uploadedFiles EXCEPT ![readBatches[b].at] =
                              ProcessedFile(f.name, f.gpg, f.content)])
    /\ UNCHANGED <<uploadPassword, wrongTried, rightTried, decryptRuns>>
    /\ UNCHANGED <<validateVars, recoverVars>>
    /\ UNCHANGED <<generateVars, swVars, dialogVars>>

\* await readFileContent(file) throws in batch b: the catch sets the first
\* entry of that name to status invalid.
ReadFileContentThrows(b) ==
    /\ b \in 1..Len(readBatches)
    /\ LET fileIndex == CHOOSE i \in 1..Len(uploadedFiles) :
                           /\ uploadedFiles[i].name = readBatches[b].cur.name
                           /\ \A j \in 1..(i - 1) :
                                 uploadedFiles[j].name # readBatches[b].cur.name
       IN  BatchGoesOn(b, [uploadedFiles EXCEPT ![fileIndex] =
                              [@ EXCEPT !.status = "invalid"]])
    /\ UNCHANGED <<uploadPassword, wrongTried, rightTried, decryptRuns>>
    /\ UNCHANGED <<validateVars, recoverVars>>
    /\ UNCHANGED <<generateVars, swVars, dialogVars>>

\* The entries of uploadedFiles in status encrypted, by position.
RECURSIVE EncryptedFilesAt(_)
EncryptedFilesAt(i) ==
    IF i > Len(uploadedFiles) THEN <<>>
    ELSE (IF uploadedFiles[i].status = "encrypted" THEN <<i>> ELSE <<>>)
           \o EncryptedFilesAt(i + 1)

\* applyDecryption up to the first await of retryDecryption: the password
\* and the encrypted entries are fixed for the whole call.
ApplyDecryptionStart ==
    /\ Len(decryptRuns) < MaxDecryptRuns
    /\ uploadPassword # 0
    /\ EncryptedFilesAt(1) # <<>>
    /\ decryptRuns' = Append(decryptRuns,
                             [password |-> uploadPassword, files |-> EncryptedFilesAt(1)])
    /\ UNCHANGED <<uploadVars, recoverBtnDisabled, readBatches>>
    /\ UNCHANGED <<validateVars, recoverVars>>
    /\ UNCHANGED <<generateVars, swVars, dialogVars>>

\* await decryptWithPassword settles for the entry at hand of call r: the
\* entry's status is set, validateCurrentShares runs, the loop moves on.
DecryptWithPasswordSettles(r) ==
    /\ r \in 1..Len(decryptRuns)
    /\ LET k == Head(decryptRuns[r].files)
       IN  uploadedFiles' = [uploadedFiles EXCEPT
                                ![k] = DecryptedFile(@, decryptRuns[r].password)]
    /\ recoverBtnDisabled' = validateCurrentShares(uploadedFiles')
    /\ decryptRuns' =
         IF Tail(decryptRuns[r].files) = <<>> THEN RemoveAt(decryptRuns, r)
         ELSE [decryptRuns EXCEPT ![r] = [@ EXCEPT !.files = Tail(@)]]
    /\ UNCHANGED <<uploadPassword, wrongTried, rightTried, readBatches>>
    /\ UNCHANGED <<validateVars, recoverVars>>
    /\ UNCHANGED <<generateVars, swVars, dialogVars>>

\* No file is being read and no decryption is in progress.
IntakeIdle ==
    /\ readBatches = <<>>
    /\ decryptRuns = <<>>

\* The page outside the recovery section, as constructed.
PageIdle ==
    /\ GenerateIdle
    /\ SwIdle
    /\ DialogIdle
    /\ IntakeIdle

(***************************************************************************)
(* Validation of the current input                                         *)
(***************************************************************************)
NotValidated ==
    [isValid |-> FALSE, validCount |-> 0, threshold |-> 0, errors |-> <<>>,
     shareIndices |-> {}]

\* validatePasteInput / validateCurrentShares: validation = validateShareCollection(...)
ValidateShares ==
    /\ validation = NotValidated
    /\ validation' = validateShareCollection(shareStrings)
    /\ recoverBtnDisabled' = validatePasteInput(shareStrings)
    /\ UNCHANGED shareStrings
    /\ UNCHANGED <<recoverVars, uploadVars>>
    /\ UNCHANGED pageVars

(***************************************************************************)
(* Specifications                                                          *)
(***************************************************************************)
RecoverIdle ==
    /\ pc = "idle"
    /\ isEncrypted = FALSE
    /\ validShareData = <<>>
    /\ password = 0
    /\ isRetry = FALSE
    /\ encIdx = 1
    /\ decryptedShares = <<>>
    /\ combineArgs = <<>>
    /\ combineCalled = FALSE
    /\ combineCalls = <<>>
    /\ shownThreshold = 0
    /\ result = NoResult
    /\ prompts = <<>>
    /\ cancelledAt = {}
    /\ decryptedWith = <<>>

UploadEmpty ==
    /\ recoverBtnDisabled = TRUE
    /\ uploadedFiles = <<>>
    /\ uploadPassword = 0
    /\ wrongTried = {}
    /\ rightTried = {}

\* validateShareCollection over every list the two channels can supply.
InitValidate ==
    /\ shareStrings \in SeqsUpTo(PasteItems, MaxShares) \cup SeqsUpTo(UploadObjects, MaxShares)
    /\ validation = NotValidated
    /\ activeTab = "paste"
    /\ shares = <<>>
    /\ RecoverIdle
    /\ UploadEmpty
    /\ PageIdle

NextValidate == ValidateShares

SpecValidate == InitValidate /\ [][NextValidate]_vars

\* One recovery attempt over the current shares of the active tab.
\* getCurrentShares hands recovery the list the tab's validation reads.
\* handleRecoverMnemonic does not consult the validation result: it is bound
\* to window.recoverMnemonic and both finally blocks re-enable the button,
\* so an attempt can start on any current input.
InitRecover ==
    /\ \/ activeTab = "paste" /\ shares \in SeqsUpTo(PasteItems, MaxShares)
       \/ activeTab = "upload" /\ shares \in SeqsUpTo(UploadObjects, MaxShares)
    /\ shareStrings = shares
    /\ validation = NotValidated
    /\ RecoverIdle
    /\ UploadEmpty
    /\ PageIdle

NextRecover ==
    \/ ValidateShares
    \/ RecoverEmpty
    \/ RecoverStartEncrypted
    \/ RecoverStartPlain
    \/ \E p \in Passwords : PasswordSupplied(p)
    \/ PasswordCancelled
    \/ DecryptNext
    \/ \E p \in Passwords : RetrySupplied(p)
    \/ RetryCancelled
    \/ MergeDecrypted
    \/ CombineReturns
    \/ CombineThrows

SpecRecover == InitRecover /\ [][NextRecover]_vars

\* The steps of the attempt itself.  Each one is the continuation of an
\* await (the dialog's promise, decryptWithPassword, combine) or runs
\* straight after the call, so it is taken once it is enabled, provided the
\* prompt is answered or cancelled and the primitives return.
RecoverStep ==
    \/ RecoverEmpty
    \/ RecoverStartEncrypted
    \/ RecoverStartPlain
    \/ \E p \in Passwords : PasswordSupplied(p)
    \/ PasswordCancelled
    \/ DecryptNext
    \/ \E p \in Passwords : RetrySupplied(p)
    \/ RetryCancelled
    \/ MergeDecrypted
    \/ CombineReturns
    \/ CombineThrows

SpecRecoverFair == InitRecover /\ [][RecoverStep]_vars /\ WF_vars(RecoverStep)

\* The Files tab: uploads, removals and decryption attempts.
InitUpload ==
    /\ shareStrings = <<>>
    /\ validation = NotValidated
    /\ activeTab = "upload"
    /\ shares = <<>>
    /\ RecoverIdle
    /\ UploadEmpty
    /\ PageIdle

NextUpload ==
    \/ \E n \in FileNames, g \in BOOLEAN, c \in FileContents : HandleFileSelect(n, g, c)
    \/ \E i \in 1..MaxFiles : RemoveFile(i)
    \/ \E p \in 0..MaxPassword : TypeUploadPassword(p)
    \/ ApplyDecryption

SpecUpload == InitUpload /\ [][NextUpload]_vars

\* The recovery section as a whole: both tabs, the files, the textarea, the
\* Recover button and the attempts it starts.  Files and lines are drawn
\* from one plain share (index 1), one share encrypted under password 1
\* (index 2), both of threshold CipherThreshold, and an undecodable content.
ShareSamples ==
    {c \in FileContents :
        /\ c.threshold = CipherThreshold /\ c.data = 1
        /\ \/ c.kind = "b64" /\ c.index = 1
           \/ c.kind = "pgp" /\ c.index = 2 /\ c.pw = 1}

FileSamples == ShareSamples \cup {Junk}

PasteSamples == SeqsUpTo(ShareSamples, MaxPasteLines)

\* The locals of recoverMnemonicWithShares before the call and after its
\* return.
NoLocals ==
    /\ shares = <<>>
    /\ isEncrypted = FALSE
    /\ validShareData = <<>>
    /\ password = 0
    /\ isRetry = FALSE
    /\ encIdx = 1
    /\ decryptedShares = <<>>
    /\ combineArgs = <<>>
    /\ combineCalled = FALSE
    /\ combineCalls = <<>>
    /\ shownThreshold = 0
    /\ prompts = <<>>
    /\ cancelledAt = {}
    /\ decryptedWith = <<>>

\* No attempt is running: the handler has returned, its result stays shown.
NoAttemptRunning == pc = "done" /\ NoLocals

\* handleRecoverMnemonic returns: the locals of the attempt are gone.
AttemptReturns ==
    /\ pc = "done"
    /\ ~NoLocals
    /\ shares' = <<>>
    /\ isEncrypted' = FALSE
    /\ validShareData' = <<>>
    /\ password' = 0
    /\ isRetry' = FALSE
    /\ encIdx' = 1
    /\ decryptedShares' = <<>>
    /\ combineArgs' = <<>>
    /\ combineCalled' = FALSE
    /\ combineCalls' = <<>>
    /\ shownThreshold' = 0
    /\ prompts' = <<>>
    /\ cancelledAt' = {}
    /\ decryptedWith' = <<>>
    /\ UNCHANGED <<activeTab, pc, result, recoverBtnDisabled>>
    /\ UNCHANGED <<validateVars, uploadVars>>
    /\ UNCHANGED pageVars

\* getCurrentShares
getCurrentShares ==
    IF activeTab = "paste" THEN shareStrings ELSE ValidShareObjects(uploadedFiles)

\* input / paste event of #recoverInput: the textarea holds the lines,
\* validateCurrentTab runs.
TypePaste(lines) ==
    /\ shareStrings' = lines
    /\ recoverBtnDisabled' = validateCurrentTab(activeTab, uploadedFiles, lines)
    /\ UNCHANGED <<validation, recoverVars, uploadVars>>
    /\ UNCHANGED pageVars

\* switchTab(tabType): the previous tab's result area is cleared, the tab
\* changes, validateCurrentTab runs.  The files and the textarea are kept.
SwitchTab(tabType) ==
    /\ activeTab # tabType
    /\ activeTab' = tabType
    /\ result' = NoResult
    /\ recoverBtnDisabled' = validateCurrentTab(tabType, uploadedFiles, shareStrings)
    /\ UNCHANGED <<validateVars, shares, pc, isEncrypted, validShareData,
                   password, isRetry, encIdx, decryptedShares, combineArgs,
                   combineCalled, combineCalls, shownThreshold, prompts,
                   cancelledAt, decryptedWith>>
    /\ UNCHANGED uploadVars
    /\ UNCHANGED pageVars

\* A click on the enabled Recover button (or Ctrl+Enter): handleRecoverMnemonic
\* reads getCurrentShares and the attempt starts.
HandleRecoverMnemonic ==
    /\ NoAttemptRunning
    /\ ~recoverBtnDisabled
    /\ shares' = getCurrentShares
    /\ pc' = "idle"
    /\ result' = NoResult
    /\ UNCHANGED <<activeTab, isEncrypted, validShareData, password, isRetry,
                   encIdx, decryptedShares, combineArgs, combineCalled,
                   combineCalls, shownThreshold, prompts, cancelledAt,
                   decryptedWith, recoverBtnDisabled>>
    /\ UNCHANGED <<validateVars, uploadVars>>
    /\ UNCHANGED pageVars

InitFiles ==
    /\ shareStrings = <<>>
    /\ validation = NotValidated
    /\ activeTab = "paste"
    /\ pc = "done"
    /\ NoLocals
    /\ result = NoResult
    /\ UploadEmpty
    /\ PageIdle

\* The dialog is modal and the attempt's other awaits are short: the page's
\* other handlers run while no attempt is running.
NextFiles ==
    \/ NoAttemptRunning /\ \E lines \in PasteSamples : TypePaste(lines)
    \/ NoAttemptRunning /\ \E t \in {"paste", "upload"} : SwitchTab(t)
    \/ NoAttemptRunning /\ \E n \in FileNames, g \in BOOLEAN, c \in FileSamples :
                               HandleFileSelect(n, g, c)
    \/ NoAttemptRunning /\ \E i \in 1..MaxFiles : RemoveFile(i)
    \/ NoAttemptRunning /\ \E p \in {0, 1} : TypeUploadPassword(p)
    \/ NoAttemptRunning /\ ApplyDecryption
    \/ HandleRecoverMnemonic
    \/ AttemptReturns
    \/ RecoverEmpty
    \/ RecoverStartEncrypted
    \/ RecoverStartPlain
    \/ \E p \in Passwords : PasswordSupplied(p)
    \/ PasswordCancelled
    \/ DecryptNext
    \/ \E p \in Passwords : RetrySupplied(p)
    \/ RetryCancelled
    \/ MergeDecrypted
    \/ CombineReturns
    \/ CombineThrows

SpecFiles == InitFiles /\ [][NextFiles]_vars

\* The generation panel: the two selects, the encryption fields and the
\* encrypted download.
NextGenerate ==
    \/ \E n \in TotalSharesOptions : ChangeTotalShares(n)
    \/ \E t \in 2..MAX_SHARES : ChangeThreshold(t)
    \/ ChangeEnableEncryption
    \/ \E p \in 0..MaxPassword : TypeEncryptionPassword(p)
    \/ DownloadShare
    \/ EncryptReturns
    \/ EncryptThrows

SpecGenerate == InitFiles /\ [][NextGenerate]_vars

\* The service worker and the requests of the pages it controls.
NextServiceWorker ==
    \/ \E ok \in BOOLEAN : SwInstall(ok)
    \/ \E u \in SwUrls, so \in BOOLEAN, m \in Methods : FetchEvent(u, so, m)
    \/ \E i \in 1..MaxRequests : CacheMatchReturns(i)
    \/ \E i \in 1..MaxRequests, ok \in BOOLEAN : FetchReturns(i, ok)
    \/ \E i \in 1..MaxRequests : FetchThrows(i)
    \/ \E i \in 1..MaxRequests : OfflineMatchReturns(i)
    \/ \E i \in 1..MaxRequests, o \in {"ok", "notOk", "networkError"} :
          PassThroughSettles(i, o)
    \/ \E u \in SwUrls : CachePutCompletes(u)

SpecServiceWorker == InitFiles /\ [][NextServiceWorker]_vars

\* The password dialog and its callers.  show has no guard of its own, and
\* handleRecoverMnemonic, which leads to it, is also bound to
\* window.recoverMnemonic: it can be called while a prompt is open.
NextDialog ==
    \/ \E r \in BOOLEAN : Show(r)
    \/ \E p \in 0..MaxPassword : TypeDialogInput(p)
    \/ HandleConfirm
    \/ HandleCancel

SpecDialog == InitFiles /\ [][NextDialog]_vars

\* File intake and decryption with their awaits: selections and drops can
\* arrive, and Apply can be pressed, while reads and decryptions are in
\* flight.  Files are not removed here, so an entry keeps its position.
IntakeFiles ==
    {SelectedFile(n, c.kind = "pgp", c) : n \in FileNames, c \in FileSamples}

NextIntake ==
    \/ \E files \in SeqsUpTo(IntakeFiles, MaxFiles) : HandleFileSelectBatch(files)
    \/ \E b \in 1..MaxIntakeFiles : ReadFileContentReturns(b)
    \/ \E b \in 1..MaxIntakeFiles : ReadFileContentThrows(b)
    \/ \E p \in 0..MaxPassword : TypeUploadPassword(p)
    \/ ApplyDecryptionStart
    \/ \E r \in 1..MaxDecryptRuns : DecryptWithPasswordSettles(r)

SpecIntake == InitUpload /\ [][NextIntake]_vars

Spec == SpecRecover

(***************************************************************************)
(* Properties                                                              *)
(***************************************************************************)
Validated == validation # NotValidated

\* The inputs validateShareCollection counts, in input order.
CountedShares == SelectSeq(shareStrings, IsCountedShare)
CountedIndices == {CountedShares[i].index : i \in 1..Len(CountedShares)}
NoDuplicateCounted ==
    \A i, j \in 1..Len(CountedShares) :
        i # j => CountedShares[i].index # CountedShares[j].index
AllDecode == \A i \in 1..Len(shareStrings) : IsCountedShare(shareStrings[i])
ErrorKinds == {validation.errors[i].kind : i \in 1..Len(validation.errors)}
HasError(e) == \E i \in 1..Len(validation.errors) : validation.errors[i] = e

\* C1: validateShareCollection returns isValid = TRUE if and only if
\* validCount >= threshold, no two counted shares carry the same index and
\* no input item failed to decode as a share.
C1_IsValidIff ==
    Validated =>
        (validation.isValid <=>
            /\ validation.validCount >= validation.threshold
            /\ NoDuplicateCounted
            /\ AllDecode)

\* C1 witness: an accepted list of at least two shares.
C1_Witness ==
    Validated /\ validation.isValid /\ validation.validCount >= 2

\* C2: whenever combine is called it is handed exactly threshold payloads,
\* threshold being the threshold of the first accepted share of the attempt,
\* never fewer and never more.
C2_ExactlyThreshold ==
    combineCalled =>
        /\ Len(combineArgs) = finalShares[1].threshold
        /\ shownThreshold = finalShares[1].threshold

\* C2 witness: combine was called while more shares than the threshold were
\* accepted.
C2_Witness ==
    combineCalled /\ Len(combineArgs) >= 2 /\ Len(finalShares) > Len(combineArgs)

\* C3: the payloads handed to combine come from envelopes with pairwise
\* distinct indices in ascending index order (first occurrence kept), so
\* combine never gets two payloads of the same index.
C3_DistinctAscending ==
    combineCalled =>
        \A i, j \in 1..Len(combineArgs) :
            i < j => combineArgs[i].index < combineArgs[j].index

\* C4: an attempt whose accepted envelopes do not all carry the same
\* threshold is rejected: it fails and combine is never called on it.
C4_ThresholdAgreement ==
    (\E i, j \in 1..Len(finalShares) :
         finalShares[i].threshold # finalShares[j].threshold)
      => /\ ~combineCalled
         /\ pc = "done" => result.status = "Failed"

PlainEnvelopes == MapEnvelope(Classified(shares))

\* The recovery half of C5: over k >= 1 plain envelopes with k < T the
\* attempt fails with insufficient shares {have: k, need: T}, combine uncalled.
C5_RecoveryInsufficient ==
    (/\ pc = "done"
     /\ ~isEncrypted
     /\ Len(PlainEnvelopes) >= 1
     /\ Len(PlainEnvelopes) < PlainEnvelopes[1].threshold)
      => /\ result = FailedInsufficient(PlainEnvelopes[1].threshold, Len(PlainEnvelopes))
         /\ ~combineCalled

\* C5 as stated: for every input whose validCount is below the threshold,
\* validation reports insufficient shares with have = validCount and
\* need = threshold; recovery over k < T plain envelopes fails alike.
C5_InsufficientAlways ==
    /\ (Validated /\ validation.validCount < validation.threshold)
         => HasError(ErrInsufficient(validation.threshold, validation.validCount))
    /\ C5_RecoveryInsufficient

\* C5 amended: the insufficient-shares error (have = validCount,
\* need = threshold) is reported for 0 < validCount < threshold; with
\* validCount = 0 the no-valid-shares error is reported and no
\* insufficient-shares error; recovery over 1 <= k < T plain envelopes fails
\* with insufficient shares {have: k, need: T} and never calls combine.
C5_InsufficientNonEmpty ==
    /\ (Validated /\ 0 < validation.validCount
                  /\ validation.validCount < validation.threshold)
         => HasError(ErrInsufficient(validation.threshold, validation.validCount))
    /\ (Validated /\ validation.validCount = 0)
         => HasError(ErrNoValid) /\ "InsufficientShares" \notin ErrorKinds
    /\ C5_RecoveryInsufficient

\* C5 witness: two plain envelopes of threshold 3 were validated and the
\* attempt over them has ended.
C5_Witness ==
    /\ Validated /\ validation.validCount = 2 /\ validation.threshold = 3
    /\ pc = "done" /\ ~isEncrypted /\ Len(PlainEnvelopes) = 2
    /\ PlainEnvelopes[1].threshold = 3

C7_CancelFails ==
    cancelledAt # {} =>
        /\ ~combineCalled
        /\ pc = "done" => result = Failed("encryption.passwordRequired")

\* C8 (upload channel): a file on which a wrong password was applied and
\* then the right one is resolved into its envelope.
C8_RetryResolves ==
    \A i \in 1..Len(uploadedFiles) :
        (/\ uploadedFiles[i].name \in rightTried
         /\ ~parseShareContent(Item("b64", uploadedFiles[i].content, 0)).encrypted)
          => /\ uploadedFiles[i].status = "valid"
             /\ uploadedFiles[i].shareData = Envelope(uploadedFiles[i].content)

\* C9: a retry prompt is issued only if every decryption attempt with the
\* supplied password failed; at the first retry prompt no encrypted input
\* decrypts under the password of the first prompt.
C9_RetryOnlyIfAllFailed ==
    (pc = "retryPrompt" /\ Len(prompts) = 2) =>
        \A k \in 1..Len(encryptedShares) :
            decryptWithPassword(encryptedShares[k], password).outcome # "ok"

\* C10: within one attempt all resolved encrypted shares were decrypted
\* with one and the same password.
C10_SinglePassword ==
    \A i, j \in 1..Len(decryptedWith) : decryptedWith[i] = decryptedWith[j]

\* The plain envelopes among the shares of the attempt, in input order.
PlainInputs == MapEnvelope(SelectSeq(shares, IsPlainEntry))

\* C11: when the plain envelopes among the inputs already number at least
\* their threshold, the attempt issues no password prompt, whatever encrypted
\* or undecodable inputs are also present.
C11_NoPromptWhenSufficient ==
    (/\ Len(PlainInputs) >= 1
     /\ Len(PlainInputs) >= PlainInputs[1].threshold)
      => prompts = <<>>

\* The reasons recoverMnemonicWithShares shows that name a kind of the
\* taxonomy: no valid shares, insufficient shares, password required, wrong
\* password, and decryption failed with no valid share.
TaxonomyReasons ==
    {"errors.noValidShares", "errors.insufficientShares",
     "encryption.passwordRequired", "encryption.invalidPassword",
     "encryption.decryptionFailed+errors.noValidShares"}

\* C12: every failed attempt reports a reason of the taxonomy; a failure of
\* combine is never reported as the primitive's raw error.
C12_ClassifiedFailure ==
    (pc = "done" /\ result.status = "Failed") => result.reason \in TaxonomyReasons

\* C13: an attempt issues at most the first prompt plus one retry prompt
\* per encrypted input, and it reaches a terminal outcome: success or a
\* failure with a reason.
C13_Terminates ==
    /\ [](Len(prompts) <= 1 + Len(encryptedShares))
    /\ <>(pc = "done" /\ result.status \in {"Succeeded", "Failed"})

\* C13 witness: an ended attempt over two encrypted inputs in which the
\* first prompt and a retry prompt on each input were issued.
C13_Witness ==
    /\ pc = "done"
    /\ Len(encryptedShares) = 2
    /\ Len(prompts) = 3

\* Every order in which the items of a list can be supplied.
PermsOf(list) ==
    {[i \in 1..Len(list) |-> list[f[i]]] :
        f \in {g \in [1..Len(list) -> 1..Len(list)] :
                  \A a, b \in 1..Len(list) : a # b => g[a] # g[b]}}

Verdict(v) == <<v.isValid, v.validCount, v.threshold>>

PayloadSet(list) == {list[i] : i \in 1..Len(list)}

\* C14: the validation verdict (isValid, validCount, threshold) and the
\* outcome of recovery (here: the set of payloads a successful plain attempt
\* hands to combine) are the same for every order of the same inputs.
C14_OrderIndependent ==
    /\ Validated =>
          \A q \in PermsOf(shareStrings) :
              Verdict(validateShareCollection(q)) = Verdict(validation)
    /\ (combineCalled /\ ~isEncrypted) =>
          \A q \in PermsOf(shares) :
              LET final == MapEnvelope(Classified(q))
              IN  /\ Len(final) >= final[1].threshold
                  /\ PayloadSet(Slice(final, final[1].threshold))
                        = PayloadSet(combineArgs)

\* C15: whenever at least one input is a valid share, the threshold that
\* validateShareCollection reports is the threshold field of the first valid
\* share in input order, whatever thresholds later shares carry.
C15_FirstShareThreshold ==
    (Validated /\ Len(CountedShares) >= 1) =>
        validation.threshold = CountedShares[1].threshold

\* C15 witness: a validated list whose second valid share carries another
\* threshold than the first.
C15_Witness ==
    /\ Validated
    /\ Len(CountedShares) >= 2
    /\ CountedShares[2].threshold # CountedShares[1].threshold

\* C16: with validCount = 0 the no-valid-shares error is reported and the
\* insufficient-shares error is not; the two are never reported together.
C16_NoValidNotInsufficient ==
    Validated =>
        /\ validation.validCount = 0 =>
              /\ "NoValidShares" \in ErrorKinds
              /\ "InsufficientShares" \notin ErrorKinds
        /\ ~("NoValidShares" \in ErrorKinds /\ "InsufficientShares" \in ErrorKinds)

\* C16 witness: a validated non-empty list none of whose items is a valid
\* share.
C16_Witness ==
    /\ Validated
    /\ Len(shareStrings) >= 2
    /\ validation.validCount = 0
    /\ HasError(ErrNoValid)

\* C17: the first combine call of a reconstruction is the string-oriented
\* one, and a byte-oriented call only follows a string-oriented call that
\* failed.
C17_StringFirst ==
    \A i \in 1..Len(combineCalls) :
        combineCalls[i] = "bytes" => (i > 1 /\ combineCalls[i - 1] = "string")

\* C18: an uploaded file whose content neither decodes as a share nor is
\* an OpenPGP message is held as unrecognized (status invalid): it is not
\* kept as an encrypted file awaiting a password and not counted as valid.
C18_UnrecognizedFile ==
    \A i \in 1..Len(uploadedFiles) :
        (/\ uploadedFiles[i].content.kind # "pgp"
         /\ parseShareContent(uploadedFiles[i].content).encrypted)
          => uploadedFiles[i].status = "invalid"

\* C19: a switch of the intake channel discards what was collected on the
\* channel left: the uploaded files when leaving the Files tab, the pasted
\* lines when leaving the Paste tab.
C19_SwitchResets ==
    [][(activeTab' # activeTab) =>
          IF activeTab = "upload" THEN uploadedFiles' = <<>>
          ELSE shareStrings' = <<>>]_vars

\* C20: on the Files tab, while no attempt is running, the Recover button
\* is enabled only if the valid uploaded shares pass validation.
C20_RecoverOnlyIfValid ==
    (activeTab = "upload" /\ NoAttemptRunning /\ ~recoverBtnDisabled) =>
        validateShareCollection(ValidShareObjects(uploadedFiles)).isValid

\* C21: after any sequence of changes of the total-shares selection, every
\* threshold offered for selection lies in 2..5 and does not exceed the
\* selected total.
C21_ThresholdRange ==
    \A t \in thresholdOptions :
        2 <= t /\ t <= 5 /\ t <= totalSharesSelect

\* C22: a request whose origin differs from the worker's is answered with a
\* 403 response at once and is never handed to fetch or looked up in the
\* cache, whatever its method.
C22_CrossOriginBlocked ==
    \A i \in 1..Len(swRequests) :
        ~swRequests[i].sameOrigin =>
            /\ swRequests[i].pc = "responded"
            /\ swRequests[i].response = "403"
            /\ ~swRequests[i].viaNetwork
            /\ ~swRequests[i].viaCache

\* C22 witness: a cross-origin POST and a cross-origin GET for a URL the
\* cache holds have both been handled.
C22_Witness ==
    /\ \E i \in 1..Len(swRequests) :
          ~swRequests[i].sameOrigin /\ swRequests[i].method = "POST"
    /\ \E i \in 1..Len(swRequests) :
          /\ ~swRequests[i].sameOrigin /\ swRequests[i].method = "GET"
          /\ swRequests[i].url \in swCache

\* C23: a same-origin GET that arrives after the network has returned an ok
\* response for its URL is answered from the cache without a network fetch;
\* the cache only ever receives ok responses to same-origin GETs.
C23_CachedAfterOk ==
    /\ \A i \in 1..Len(swRequests) :
          swRequests[i].afterOk =>
              /\ ~swRequests[i].viaNetwork
              /\ swRequests[i].pc = "responded" => swRequests[i].response = "cached"
    /\ swCache \cup swPuts \subseteq swNetOk

\* C24: when recoverMnemonicWithShares finishes, on success and on every
\* failure path, no component holds the decryption password typed for the uploaded
\* files any more; and ShareManager.encryptionPassword is empty when
\* downloadEncryptedShare has completed or failed.
C24_PasswordsWiped ==
    [][/\ (shares # <<>> /\ pc # "done" /\ pc' = "done") => uploadPassword' = 0
       /\ (downloadPc = "encrypting" /\ downloadPc' = "idle")
             => encryptionPassword' = 0]_vars

\* No uploaded file is a valid plain share and at least one awaits
\* decryption.
EncryptedOnly(files) ==
    /\ ValidShareObjects(files) = <<>>
    /\ \E i \in 1..Len(files) : files[i].status = "encrypted"

\* C25: on the Files tab, with no valid plain share and at least one file
\* awaiting decryption, the Recover button is enabled, and the attempt a
\* press starts holds an encrypted input, so that its first step is the
\* password prompt and not the no-valid-shares error.
C25_EncryptedOnlyPrompts ==
    /\ (activeTab = "upload" /\ NoAttemptRunning /\ EncryptedOnly(uploadedFiles))
          => ~recoverBtnDisabled
    /\ (activeTab = "upload" /\ pc = "idle" /\ EncryptedOnly(uploadedFiles))
          => \E i \in 1..Len(shares) : IsEncryptedEntry(shares[i])

\* C26: on a list validateShareCollection accepts with threshold T, the
\* recovery attempt reaches combine with that T and does not fail with no
\* valid shares or insufficient shares.
C26_ValidatorAgrees ==
    (Validated /\ validation.isValid /\ pc \in {"combine", "done"}) =>
        /\ combineCalled
        /\ shownThreshold = validation.threshold
        /\ result.reason \notin {"errors.noValidShares", "errors.insufficientShares"}

\* The moves of a file's status that the intake and decryption are meant to
\* make.
StatusMoveAllowed(a, b) ==
    \/ a = b
    \/ a = "processing" /\ b \in {"valid", "invalid", "encrypted"}
    \/ a = "encrypted" /\ b \in {"valid", "invalid"}

\* C27: a file's status only moves from processing to valid, invalid or
\* encrypted and from encrypted to valid or invalid, never out of valid or
\* invalid, under every interleaving of uploads and applyDecryption calls;
\* and a file in status valid holds a decoded share.
C27_StatusMoves ==
    /\ [][\A i \in 1..Len(uploadedFiles) :
             StatusMoveAllowed(uploadedFiles[i].status, uploadedFiles'[i].status)]_vars
    /\ [](\A i \in 1..Len(uploadedFiles) :
             uploadedFiles[i].status = "valid" =>
                 /\ uploadedFiles[i].shareData # NullShare
                 /\ uploadedFiles[i].shareData.threshold # 0
                 /\ uploadedFiles[i].shareData.data # 0)

\* C28: the list of uploaded files never holds two entries of the same file
\* name.
C28_UniqueNames ==
    \A i, j \in 1..Len(uploadedFiles) :
        i # j => uploadedFiles[i].name # uploadedFiles[j].name

\* C29: once the user has confirmed or cancelled the visible dialog, so that
\* no dialog is open, every promise show has returned is settled, also when
\* show was called again while an earlier prompt was pending.
C29_PromisesSettled ==
    ~dialogMounted =>
        \A i \in 1..Len(promises) : promises[i].state # "pending"

\* C30: a prompt is resolved only with a non-empty password typed into that
\* same prompt, never with the password left from an earlier prompt.
C30_TypedInSamePrompt ==
    \A i \in 1..Len(promises) :
        promises[i].state = "resolved" =>
            /\ promises[i].value # 0
            /\ promises[i].value = promises[i].typed

====
